---- MODULE Spec2Model ----
(***************************************************************************)
(* Risk analytics of the position tracker: RiskService                     *)
(* (src/app/services/risk.py) behind its two endpoints                     *)
(* (src/app/api/endpoints/risk.py).                                        *)
(*                                                                         *)
(* State: the Position table the service queries (db), the wall clock      *)
(* read by datetime.now() (now), and the response of the request that has  *)
(* just been served (lastCall).                                            *)
(*                                                                         *)
(* Beside it, the token helper get_token of src/app/main.py: the in-memory *)
(* token store (tokens), the DEV_MODE switch, and the calls of get_token   *)
(* in progress (calls), one per caller, each suspended at most at its      *)
(* await points.                                                           *)
(*                                                                         *)
(* Numbers.  Column values are whole numbers.  The body of a response      *)
(* holds, for every number the service computes, the real number its       *)
(* expression denotes, as an exact fraction [num, den] in lowest terms     *)
(* with den > 0; float('inf') is the fraction 1/0.  Beside the body, a     *)
(* portfolio response holds in binary64 the three mappings of shares as    *)
(* the floats the code computes them to: each division, multiplication and *)
(* += rounded to 53 bits, in the order the code performs them.  The float  *)
(* and the fraction of one share differ by the rounding, at most a few     *)
(* units in the last place.  Python's true division by zero raises         *)
(* ZeroDivisionError (for floats as for ints): every division of the code  *)
(* is modelled together with the condition under which it is reached with  *)
(* a zero divisor.                                                         *)
(*                                                                         *)
(* Time.  Timestamps are counted in ticks, TicksPerDay ticks to a day;     *)
(* timedelta.days is the floor of the difference in days.                  *)
(***************************************************************************)
EXTENDS Integers, Sequences, FiniteSets, TLC

VARIABLES db, now, lastCall, tokens, DEV_MODE, calls

vars == <<db, now, lastCall, tokens, DEV_MODE, calls>>

tokenVars == <<tokens, DEV_MODE, calls>>

(***************************************************************************)
(* Bounds of the model.                                                    *)
(***************************************************************************)
MaxPositions == 2
MaxNow == 1
TicksPerDay == 2
MaxPrice == 2
MaxQuantity == 2
MaxCallers == 2
MaxSectors == 11
MaxPremium == 2

(***************************************************************************)
(* Exact arithmetic: the real numbers the expressions of the code denote.  *)
(***************************************************************************)
Abs(x) ==
    IF x < 0 THEN -x ELSE x

RECURSIVE GCD(_, _)
GCD(a, b) ==
    IF b = 0 THEN a ELSE GCD(b, a % b)

\* n/d in lowest terms, d # 0
Rat(n, d) ==
    LET g == GCD(Abs(n), Abs(d))
        s == IF d < 0 THEN -1 ELSE 1
    IN  [num |-> (s * n) \div g, den |-> (s * d) \div g]

FromInt(n) ==
    [num |-> n, den |-> 1]

Zero ==
    FromInt(0)

\* float('inf')
Infinity ==
    [num |-> 1, den |-> 0]

RAdd(a, b) ==
    Rat(a.num * b.den + b.num * a.den, a.den * b.den)

RMul(a, b) ==
    Rat(a.num * b.num, a.den * b.den)

\* a / b, for b # 0
RDiv(a, b) ==
    Rat(a.num * b.den, a.den * b.num)

RAbs(a) ==
    [num |-> Abs(a.num), den |-> a.den]

RLeq(a, b) ==
    a.num * b.den <= b.num * a.den

RMin(a, b) ==
    IF RLeq(a, b) THEN a ELSE b

\* sum(f.values()) of a dict of fractions
RECURSIVE RSum(_)
RSum(f) ==
    IF DOMAIN f = {} THEN Zero
    ELSE LET k == CHOOSE x \in DOMAIN f : TRUE
         IN  RAdd(f[k], RSum([x \in DOMAIN f \ {k} |-> f[x]]))

\* the empty dict
EmptyDict ==
    [k \in {} |-> Zero]

(***************************************************************************)
(* Binary floating point.  A Python float is an IEEE 754 binary64: a sign, *)
(* a significand of 53 bits and an exponent.  It is kept here as           *)
(* [sign, hi, lo, exp] and stands for sign * (hi * 2^26 + lo) * 2^exp,     *)
(* with 2^26 <= hi < 2^27 and 0 <= lo < 2^26; zero is [0, 0, 0, 0].        *)
(* Every operation rounds its exact result to the nearest such number,     *)
(* ties to the even significand, as the hardware does.  The values the     *)
(* service computes are far from the overflow and underflow thresholds.    *)
(***************************************************************************)
F64Zero ==
    [sign |-> 0, hi |-> 0, lo |-> 0, exp |-> 0]

\* the number of bits of n >= 0
RECURSIVE BitLen(_)
BitLen(n) ==
    IF n = 0 THEN 0 ELSE 1 + BitLen(n \div 2)

\* the significand hi * 2^26 + lo + up (up is 0 or 1) at exponent exp,
\* renormalised when the increment carries out of the 53 bits
F64Rounded(sign, hi, lo, exp, up) ==
    LET lo1 == IF up THEN lo + 1 ELSE lo
        hi1 == IF lo1 = 2^26 THEN hi + 1 ELSE hi
    IN  IF hi1 = 2^27
        THEN [sign |-> sign, hi |-> 2^26, lo |-> 0, exp |-> exp + 1]
        ELSE [sign |-> sign, hi |-> hi1, lo |-> lo1 % 2^26, exp |-> exp]

\* float(n) of a whole number below 2^27 in magnitude
F64FromInt(n) ==
    IF n = 0 THEN F64Zero
    ELSE LET shift == 27 - BitLen(Abs(n))
         IN  [sign |-> IF n < 0 THEN -1 ELSE 1,
              hi |-> Abs(n) * 2^shift, lo |-> 0, exp |-> -(shift + 26)]

\* a / b of two whole-number floats below 2^17 in magnitude, b # 0: long
\* division to 53 quotient bits, rounded on the remainder
F64Div(a, b) ==
    IF a = 0 THEN F64Zero
    ELSE LET na == BitLen(Abs(a))
             nb == BitLen(Abs(b))
             n1 == Abs(a) * 2^(17 - na)
             d1 == Abs(b) * 2^(17 - nb)
             t == IF n1 >= d1 THEN 0 ELSE 1
             r0 == n1 * 2^t - d1
             c1 == (r0 * 2^13) \div d1
             r1 == (r0 * 2^13) % d1
             c2 == (r1 * 2^13) \div d1
             r2 == (r1 * 2^13) % d1
             c3 == (r2 * 2^13) \div d1
             r3 == (r2 * 2^13) % d1
             c4 == (r3 * 2^13) \div d1
             r4 == (r3 * 2^13) % d1
             hi == 2^26 + c1 * 2^13 + c2
             lo == c3 * 2^13 + c4
             up == 2 * r4 > d1 \/ (2 * r4 = d1 /\ lo % 2 = 1)
             sign == IF (a < 0) = (b < 0) THEN 1 ELSE -1
         IN  F64Rounded(sign, hi, lo, na - nb - t - 52, up)

\* 25 * (hi * 2^26 + lo) / 2^s, for s of 4 or 5: quotient and remainder
Times25Shifted(hi, lo, s) ==
    LET b == lo % 2^s
        hiA == hi \div 2^s
        loA == (lo \div 2^s) + (hi % 2^s) * 2^(26 - s)
        low == 25 * loA + ((25 * b) \div 2^s)
    IN  [hi |-> 25 * hiA + (low \div 2^26), lo |-> low % 2^26,
         rem |-> (25 * b) % 2^s, half |-> 2^(s - 1)]

\* x * 100: the significand times 25, the exponent plus 2
F64Times100(x) ==
    IF x.sign = 0 THEN F64Zero
    ELSE LET q4 == Times25Shifted(x.hi, x.lo, 4)
             s == IF q4.hi < 2^27 THEN 4 ELSE 5
             q == IF s = 4 THEN q4 ELSE Times25Shifted(x.hi, x.lo, 5)
             up == q.rem > q.half \/ (q.rem = q.half /\ q.lo % 2 = 1)
         IN  F64Rounded(x.sign, q.hi, q.lo, x.exp + s + 2, up)

\* |x| < |y|, for x and y other than zero
F64Smaller(x, y) ==
    \/ x.exp < y.exp
    \/ x.exp = y.exp /\ x.hi < y.hi
    \/ x.exp = y.exp /\ x.hi = y.hi /\ x.lo < y.lo

\* the 56 bits hi * 2^29 + lo shifted right by d >= 0 places; the last bit is
\* set when a one has been shifted out
ShiftedRight(hi, lo, d) ==
    LET kept == IF d <= 29
                THEN [hi |-> hi \div 2^d,
                      lo |-> (lo \div 2^d) + (hi % 2^d) * 2^(29 - d),
                      lost |-> lo % 2^d # 0]
                ELSE IF d <= 56
                THEN [hi |-> 0, lo |-> hi \div 2^(d - 29),
                      lost |-> hi % 2^(d - 29) # 0 \/ lo # 0]
                ELSE [hi |-> 0, lo |-> 0, lost |-> TRUE]
    IN  [hi |-> kept.hi,
         lo |-> IF kept.lost /\ kept.lo % 2 = 0 THEN kept.lo + 1 ELSE kept.lo]

\* the 56 bits hi * 2^29 + lo, not zero, shifted left until the first of them
\* is set; by is the number of places
ShiftedLeft(hi, lo) ==
    LET by == IF hi > 0 THEN 27 - BitLen(hi) ELSE 56 - BitLen(lo)
    IN  IF by >= 29
        THEN [hi |-> lo * 2^(by - 29), lo |-> 0, by |-> by]
        ELSE [hi |-> hi * 2^by + (lo \div 2^(29 - by)),
              lo |-> (lo % 2^(29 - by)) * 2^by, by |-> by]

\* x + y: the smaller operand is aligned to the larger with three more bits
\* (guard, round, sticky), the sum or difference is normalised and rounded
F64Add(x, y) ==
    IF x.sign = 0 THEN y
    ELSE IF y.sign = 0 THEN x
    ELSE LET big == IF F64Smaller(x, y) THEN y ELSE x
             small == IF F64Smaller(x, y) THEN x ELSE y
             aligned == ShiftedRight(small.hi, small.lo * 8, big.exp - small.exp)
             sumLo == big.lo * 8 + aligned.lo
             sumHi == big.hi + aligned.hi + (sumLo \div 2^29)
             difLo == big.lo * 8 - aligned.lo
             difHi == big.hi - aligned.hi - (IF difLo < 0 THEN 1 ELSE 0)
             ext == IF big.sign = small.sign
                    THEN IF sumHi >= 2^27
                         THEN LET s == ShiftedRight(sumHi, sumLo % 2^29, 1)
                              IN  [hi |-> s.hi, lo |-> s.lo, exp |-> big.exp + 1]
                         ELSE [hi |-> sumHi, lo |-> sumLo % 2^29, exp |-> big.exp]
                    ELSE IF difHi = 0 /\ difLo = 0
                    THEN [hi |-> 0, lo |-> 0, exp |-> 0]
                    ELSE LET s == ShiftedLeft(difHi, (difLo + 2^29) % 2^29)
                         IN  [hi |-> s.hi, lo |-> s.lo, exp |-> big.exp - s.by]
             g == ext.lo % 8
             lo == ext.lo \div 8
         IN  IF ext.hi = 0 THEN F64Zero
             ELSE F64Rounded(big.sign, ext.hi, lo, ext.exp,
                             g > 4 \/ (g = 4 /\ lo % 2 = 1))

(***************************************************************************)
(* Position rows.  sector is Optional[str]: <<>> is None, <<s>> is the     *)
(* string s.                                                               *)
(***************************************************************************)
None ==
    <<>>

Str(s) ==
    <<s>>

\* bool(x) of an Optional[str]
Truthy(x) ==
    x # None /\ x[1] # ""

\* timedelta.days of a difference of delta ticks
Days(delta) ==
    delta \div TicksPerDay

ContractSize == 100

(***************************************************************************)
(* RiskService: per-position quantities.                                   *)
(***************************************************************************)
\* MaxProfit with the cash_secured_put branch left out
MaxProfit_PutForgotten(position) ==
    IF position.strategy = "covered_call" THEN position.premium_received
    ELSE 0

MaxProfit(position) ==
    IF position.strategy = "covered_call" THEN position.premium_received
    ELSE IF position.strategy = "cash_secured_put" THEN position.premium_received
    ELSE 0

\* MaxLoss whose covered_call branch leaves the quantity out
MaxLoss_CallPerShare(position) ==
    IF position.strategy = "covered_call"
    THEN position.entry_price - position.premium_received
    ELSE IF position.strategy = "cash_secured_put"
    THEN (position.strike_price * position.quantity * ContractSize)
         - position.premium_received
    ELSE 0

\* MaxLoss whose last branch takes every other strategy for a cash_secured_put
MaxLoss_PutByDefault(position) ==
    IF position.strategy = "covered_call"
    THEN (position.entry_price * position.quantity) - position.premium_received
    ELSE (position.strike_price * position.quantity * ContractSize)
         - position.premium_received

MaxLoss(position) ==
    IF position.strategy = "covered_call"
    THEN (position.entry_price * position.quantity) - position.premium_received
    ELSE IF position.strategy = "cash_secured_put"
    THEN (position.strike_price * position.quantity * ContractSize)
         - position.premium_received
    ELSE 0

DetermineRiskLevel(position) ==
    "medium"

\* entry_price * quantity, the summand of total_value
Notional(position) ==
    position.entry_price * position.quantity

\* sum(self._calculate_max_loss(p) for p in positions)
RECURSIVE TotalRisk(_)
TotalRisk(positions) ==
    IF Len(positions) = 0 THEN 0
    ELSE MaxLoss(Head(positions)) + TotalRisk(Tail(positions))

\* sum(p.entry_price * p.quantity for p in positions)
RECURSIVE TotalValue(_)
TotalValue(positions) ==
    IF Len(positions) = 0 THEN 0
    ELSE Notional(Head(positions)) + TotalValue(Tail(positions))

\* RatioGuard left out: the division is always evaluated
RatioGuard_Missing(max_loss) ==
    TRUE

\* the guard of the conditional expression: `if max_loss != 0`
RatioGuard(max_loss) ==
    max_loss # 0

RiskRewardRatio(max_profit, max_loss) ==
    IF RatioGuard(max_loss)
    THEN RAbs(RDiv(FromInt(max_profit), FromInt(max_loss)))
    ELSE Infinity

\* max_profit / max_loss is evaluated with max_loss = 0
RiskRewardRatioRaises(max_loss) ==
    RatioGuard(max_loss) /\ max_loss = 0

(***************************************************************************)
(* RiskService: sector exposure.                                           *)
(***************************************************************************)
\* SectorOf with another name for the bucket of rows without a sector
SectorOf_Unknown(position) ==
    IF Truthy(position.sector) THEN position.sector[1] ELSE "Unknown"

\* position.sector or "Other"
SectorOf(position) ==
    IF Truthy(position.sector) THEN position.sector[1] ELSE "Other"

\* (entry_price * quantity) / total_value * 100
SectorShare(position, total_value) ==
    RMul(RDiv(FromInt(Notional(position)), FromInt(total_value)), FromInt(100))

RECURSIVE SectorLoop(_, _, _)
SectorLoop(positions, total_value, sectors) ==
    IF Len(positions) = 0 THEN sectors
    ELSE LET position == Head(positions)
             sector == SectorOf(position)
             entered == IF sector \in DOMAIN sectors
                        THEN sectors
                        ELSE sectors @@ (sector :> Zero)
         IN  SectorLoop(Tail(positions), total_value,
                 [entered EXCEPT ![sector] = RAdd(@, SectorShare(position, total_value))])

\* the same share as the float the code computes
SectorShare64(position, total_value) ==
    F64Times100(F64Div(Notional(position), total_value))

\* the same loop over floats: sectors[sector] += share
RECURSIVE SectorLoop64(_, _, _)
SectorLoop64(positions, total_value, sectors) ==
    IF Len(positions) = 0 THEN sectors
    ELSE LET position == Head(positions)
             sector == SectorOf(position)
             entered == IF sector \in DOMAIN sectors
                        THEN sectors
                        ELSE sectors @@ (sector :> F64Zero)
         IN  SectorLoop64(Tail(positions), total_value,
                 [entered EXCEPT ![sector] = F64Add(@, SectorShare64(position, total_value))])

\* the division of the loop body is unguarded: the first iteration divides by
\* total_value
SectorExposureRaises(positions) ==
    Len(positions) > 0 /\ TotalValue(positions) = 0

SectorExposure(positions) ==
    SectorLoop(positions, TotalValue(positions), EmptyDict)

SectorExposure64(positions) ==
    SectorLoop64(positions, TotalValue(positions), EmptyDict)

(***************************************************************************)
(* RiskService: distribution of risk by strategy.                          *)
(***************************************************************************)
\* StrategyGuard written as the guard of the expiration distribution
StrategyGuard_Positive(total_risk) ==
    total_risk > 0

\* the guard of the conditional expression: `if total_risk`
StrategyGuard(total_risk) ==
    total_risk # 0

\* max_loss / total_risk * 100 if total_risk else 0
StrategyShare(position, total_risk) ==
    IF StrategyGuard(total_risk)
    THEN RMul(RDiv(FromInt(MaxLoss(position)), FromInt(total_risk)), FromInt(100))
    ELSE Zero

RECURSIVE StrategyLoop(_, _, _)
StrategyLoop(positions, total_risk, strategies) ==
    IF Len(positions) = 0 THEN strategies
    ELSE LET position == Head(positions)
             strategy == position.strategy
             entered == IF strategy \in DOMAIN strategies
                        THEN strategies
                        ELSE strategies @@ (strategy :> Zero)
         IN  StrategyLoop(Tail(positions), total_risk,
                 [entered EXCEPT ![strategy] = RAdd(@, StrategyShare(position, total_risk))])

\* the same share as the float the code computes
StrategyShare64(position, total_risk) ==
    IF StrategyGuard(total_risk)
    THEN F64Times100(F64Div(MaxLoss(position), total_risk))
    ELSE F64Zero

\* the same loop over floats: strategies[strategy] += share
RECURSIVE StrategyLoop64(_, _, _)
StrategyLoop64(positions, total_risk, strategies) ==
    IF Len(positions) = 0 THEN strategies
    ELSE LET position == Head(positions)
             strategy == position.strategy
             entered == IF strategy \in DOMAIN strategies
                        THEN strategies
                        ELSE strategies @@ (strategy :> F64Zero)
         IN  StrategyLoop64(Tail(positions), total_risk,
                 [entered EXCEPT ![strategy] = F64Add(@, StrategyShare64(position, total_risk))])

StrategyDistributionRaises(positions) ==
    /\ Len(positions) > 0
    /\ StrategyGuard(TotalRisk(positions))
    /\ TotalRisk(positions) = 0

StrategyDistribution(positions) ==
    StrategyLoop(positions, TotalRisk(positions), EmptyDict)

StrategyDistribution64(positions) ==
    StrategyLoop64(positions, TotalRisk(positions), EmptyDict)

(***************************************************************************)
(* RiskService: distribution of risk by expiration window.                 *)
(***************************************************************************)
BucketKeys ==
    {"< 7 days", "7-14 days", "15-30 days", "> 30 days"}

\* ExpirationBucket whose second window is closed at 14
ExpirationBucket_Closed14(days_to_expiration) ==
    IF days_to_expiration < 7 THEN "< 7 days"
    ELSE IF days_to_expiration <= 14 THEN "7-14 days"
    ELSE IF days_to_expiration <= 30 THEN "15-30 days"
    ELSE "> 30 days"

\* the if / elif chain over days_to_expiration
ExpirationBucket(days_to_expiration) ==
    IF days_to_expiration < 7 THEN "< 7 days"
    ELSE IF days_to_expiration < 14 THEN "7-14 days"
    ELSE IF days_to_expiration <= 30 THEN "15-30 days"
    ELSE "> 30 days"

\* (position.expiration_date - today).days
DaysToExpiration(position, today) ==
    Days(position.expiration_date - today)

RECURSIVE ExpirationLoop(_, _, _)
ExpirationLoop(positions, today, expiration_groups) ==
    IF Len(positions) = 0 THEN expiration_groups
    ELSE LET position == Head(positions)
             key == ExpirationBucket(DaysToExpiration(position, today))
         IN  ExpirationLoop(Tail(positions), today,
                 [expiration_groups EXCEPT
                     ![key] = RAdd(@, FromInt(MaxLoss(position)))])

\* `if total_risk > 0` before the conversion to percentages
ExpirationGuard(total_risk) ==
    total_risk > 0

ExpirationDistributionRaises(positions) ==
    ExpirationGuard(TotalRisk(positions)) /\ TotalRisk(positions) = 0

ExpirationDistribution(positions, today) ==
    LET expiration_groups ==
            ExpirationLoop(positions, today, [key \in BucketKeys |-> Zero])
        total_risk == TotalRisk(positions)
    IN  IF ExpirationGuard(total_risk)
        THEN [key \in BucketKeys |->
                 RMul(RDiv(expiration_groups[key], FromInt(total_risk)), FromInt(100))]
        ELSE expiration_groups

\* the same mapping over floats: the sums of the loop are whole numbers, which
\* floats add without rounding; the conversion divides and multiplies floats
ExpirationDistribution64(positions, today) ==
    LET expiration_groups ==
            ExpirationLoop(positions, today, [key \in BucketKeys |-> Zero])
        total_risk == TotalRisk(positions)
    IN  IF ExpirationGuard(total_risk)
        THEN [key \in BucketKeys |->
                 F64Times100(F64Div(expiration_groups[key].num, total_risk))]
        ELSE [key \in BucketKeys |-> F64FromInt(expiration_groups[key].num)]

(***************************************************************************)
(* RiskService: portfolio scalars and the distribution by risk level.      *)
(***************************************************************************)
\* PortfolioMaxLoss with a surcharge in place of the discount
PortfolioMaxLoss_Surcharge(positions) ==
    RMul(FromInt(TotalRisk(positions)), Rat(12, 10))

\* sum(...) * 0.8
PortfolioMaxLoss(positions) ==
    RMul(FromInt(TotalRisk(positions)), Rat(8, 10))

\* set(p.sector for p in positions if p.sector)
SectorSet(positions) ==
    {positions[i].sector : i \in {j \in DOMAIN positions : Truthy(positions[j].sector)}}

\* DiversificationScore without the cap at 1.0
DiversificationScore_Unclamped(positions) ==
    Rat(Cardinality(SectorSet(positions)), 10)

\* min(num_sectors / 10, 1.0)
DiversificationScore(positions) ==
    RMin(Rat(Cardinality(SectorSet(positions)), 10), FromInt(1))

RiskLevels ==
    {"low", "medium", "high", "extreme"}

\* RiskDistribution that leaves the counts unconverted
RiskDistribution_Counts(positions) ==
    [level \in RiskLevels |->
        FromInt(Cardinality({i \in DOMAIN positions :
                                DetermineRiskLevel(positions[i]) = level}))]

RiskDistribution(positions) ==
    LET counts == [level \in RiskLevels |->
                      Cardinality({i \in DOMAIN positions :
                                      DetermineRiskLevel(positions[i]) = level})]
        total == Len(positions)
    IN  IF total > 0
        THEN [level \in RiskLevels |->
                 RMul(RDiv(FromInt(counts[level]), FromInt(total)), FromInt(100))]
        ELSE [level \in RiskLevels |-> FromInt(counts[level])]

(***************************************************************************)
(* The two queries of the service.                                         *)
(***************************************************************************)
\* QueryById without the filter on the id
QueryById_AnyRow(rows, position_id) ==
    rows

\* OpenPositions with the filter inverted
OpenPositions_Closed(rows) ==
    SelectSeq(rows, LAMBDA p : p.is_open = FALSE)

\* db.query(Position).filter(Position.id == position_id)
QueryById(rows, position_id) ==
    SelectSeq(rows, LAMBDA p : p.id = position_id)

\* OpenPositions without the filter on is_open
OpenPositions_Unfiltered(rows) ==
    rows

\* db.query(Position).filter(Position.is_open == True).all()
OpenPositions(rows) ==
    SelectSeq(rows, LAMBDA p : p.is_open = TRUE)

(***************************************************************************)
(* Responses.  A request ends with a returned body and a status, or with   *)
(* an exception that leaves the handler (status 500); raisedIn is the      *)
(* function the exception was raised in.  binary64 holds the floats of a   *)
(* portfolio response.                                                     *)
(***************************************************************************)
Returned(op, position_id, status, body) ==
    [op |-> op, id |-> position_id, raised |-> "", raisedIn |-> "",
     status |-> status, body |-> body, binary64 |-> EmptyDict]

Raised(op, position_id, error, function) ==
    [op |-> op, id |-> position_id, raised |-> error, raisedIn |-> function,
     status |-> 500, body |-> EmptyDict, binary64 |-> EmptyDict]

NoCall ==
    [op |-> "none", id |-> 0, raised |-> "", raisedIn |-> "",
     status |-> 0, body |-> EmptyDict, binary64 |-> EmptyDict]

\* RiskService.get_position_risk, for a row that was found
PositionRiskReport(position, position_id, today) ==
    [position_id |-> position_id,
     symbol |-> position.symbol,
     strategy |-> position.strategy,
     risk_level |-> DetermineRiskLevel(position),
     greeks |-> [delta |-> Rat(5, 10), gamma |-> Rat(5, 100),
                 theta |-> Rat(-1, 10), vega |-> Rat(2, 10)],
     max_profit |-> FromInt(MaxProfit(position)),
     max_loss |-> FromInt(MaxLoss(position)),
     risk_reward_ratio |-> RiskRewardRatio(MaxProfit(position), MaxLoss(position)),
     probabilities |-> [profit |-> Rat(65, 100), assignment |-> Rat(15, 100)],
     days_to_expiration |-> DaysToExpiration(position, today)]

\* the endpoint /positions/{position_id} around RiskService.get_position_risk
PositionRiskResponse(rows, position_id, today) ==
    LET found == QueryById(rows, position_id)
    IN  IF Len(found) = 0
        THEN LET risk_data == [error |-> "Position not found"]
             IN  Returned("get_position_risk", position_id, 404, risk_data)
        ELSE LET position == Head(found)
             IN  IF RiskRewardRatioRaises(MaxLoss(position))
                 THEN Raised("get_position_risk", position_id,
                             "ZeroDivisionError", "get_position_risk")
                 ELSE LET risk_data == PositionRiskReport(position, position_id, today)
                      IN  IF "error" \in DOMAIN risk_data
                          THEN Returned("get_position_risk", position_id, 404, risk_data)
                          ELSE Returned("get_position_risk", position_id, 200, risk_data)

\* the endpoint /portfolio around RiskService.get_portfolio_risk
PortfolioRiskResponse(rows, today) ==
    LET positions == OpenPositions(rows)
    IN  IF SectorExposureRaises(positions)
        THEN Raised("get_portfolio_risk", 0,
                    "ZeroDivisionError", "_calculate_sector_exposure")
        ELSE IF StrategyDistributionRaises(positions)
        THEN Raised("get_portfolio_risk", 0,
                    "ZeroDivisionError", "_calculate_strategy_distribution")
        ELSE IF ExpirationDistributionRaises(positions)
        THEN Raised("get_portfolio_risk", 0,
                    "ZeroDivisionError", "_calculate_expiration_distribution")
        ELSE [Returned("get_portfolio_risk", 0, 200,
                 [totalRisk |-> FromInt(TotalRisk(positions)),
                  maxLoss |-> PortfolioMaxLoss(positions),
                  diversification |-> DiversificationScore(positions),
                  risk_distribution |-> RiskDistribution(positions),
                  sectorExposure |-> SectorExposure(positions),
                  riskByStrategy |-> StrategyDistribution(positions),
                  riskByExpiration |-> ExpirationDistribution(positions, today)])
              EXCEPT !.binary64 =
                 [sectorExposure |-> SectorExposure64(positions),
                  riskByStrategy |-> StrategyDistribution64(positions),
                  riskByExpiration |-> ExpirationDistribution64(positions, today)]]

(***************************************************************************)
(* Tables the service is run against.  A table is a sequence of rows whose *)
(* id is their index (the primary key).                                    *)
(***************************************************************************)
Strategies ==
    {"covered_call", "cash_secured_put", "iron_condor"}

SeqsUpTo(S, n) ==
    UNION {[1..k -> S] : k \in 0..n}

Table(rows) ==
    [i \in DOMAIN rows |-> rows[i] @@ [id |-> i]]

\* an expiration well beyond every window
FarExpiry ==
    60 * TicksPerDay

\* rows that differ in notional, sector and openness
SectorRows ==
    [symbol : {"XYZ"},
     strategy : {"covered_call"},
     quantity : {1},
     entry_price : 0..MaxPrice,
     strike_price : {1},
     premium_received : {0},
     expiration_date : {FarExpiry},
     is_open : BOOLEAN,
     sector : {None, Str("Tech"), Str("Other")}]

\* single rows that differ in everything max_profit and max_loss read
PricingRows ==
    [symbol : {"XYZ"},
     strategy : Strategies,
     quantity : 1..MaxQuantity,
     entry_price : 0..MaxPrice,
     strike_price : 1..2,
     premium_received : (0..(MaxPrice * MaxQuantity))
                        \cup {s * q * ContractSize : s \in 1..2, q \in 1..MaxQuantity},
     expiration_date : {FarExpiry},
     is_open : BOOLEAN,
     sector : {None}]

\* rows that differ in max_loss (positive, zero, negative) and expiration
ExpiryRows ==
    [symbol : {"XYZ"},
     strategy : {"covered_call"},
     quantity : {1},
     entry_price : {1},
     strike_price : {1},
     premium_received : 0..MaxPremium,
     expiration_date : {-1} \cup {d * TicksPerDay : d \in {7, 14, 31}},
     is_open : {TRUE},
     sector : {None}]

\* rows that differ in strategy and max_loss (positive, zero, negative)
StrategyRows ==
    [symbol : {"XYZ"},
     strategy : Strategies,
     quantity : {1},
     entry_price : {0, 1},
     strike_price : {1},
     premium_received : 0..MaxPremium,
     expiration_date : {FarExpiry},
     is_open : {TRUE},
     sector : {None}]

\* names of sectors, as many as a table of distinct sectors needs
SectorNames ==
    <<"Tech", "Energy", "Health", "Finance", "Retail", "Utilities", "Materials",
      "Industrials", "Telecom", "RealEstate", "Staples", "Media", "Transport",
      "Defense">>

\* a row that differs from its neighbours in its sector only
SectorRow(sector, is_open) ==
    [symbol |-> "XYZ", strategy |-> "covered_call", quantity |-> 1,
     entry_price |-> 1, strike_price |-> 1, premium_received |-> 0,
     expiration_date |-> FarExpiry, is_open |-> is_open, sector |-> sector]

\* tables of n open rows of n distinct sectors, followed or not by an open row
\* that repeats the first sector, an open row without a sector, and a closed
\* row of one more sector
DiversityTables ==
    {Table([i \in 1..n |-> SectorRow(Str(SectorNames[i]), TRUE)]
           \o (IF repeated /\ n > 0
               THEN <<SectorRow(Str(SectorNames[1]), TRUE)>> ELSE <<>>)
           \o (IF unclassified THEN <<SectorRow(None, TRUE)>> ELSE <<>>)
           \o (IF closed THEN <<SectorRow(Str(SectorNames[n + 1]), FALSE)>> ELSE <<>>)) :
        n \in 0..MaxSectors, repeated \in BOOLEAN,
        unclassified \in BOOLEAN, closed \in BOOLEAN}

\* open rows that differ in strategy, notional and sector
OrderRows ==
    [symbol : {"XYZ"},
     strategy : {"covered_call", "cash_secured_put"},
     quantity : 1..MaxQuantity,
     entry_price : 1..MaxPrice,
     strike_price : {1},
     premium_received : {0},
     expiration_date : {FarExpiry},
     is_open : {TRUE},
     sector : {None, Str("Tech")}]

PositionIds ==
    1..(MaxPositions + 1)

(***************************************************************************)
(* get_token (src/app/main.py).  Tokens are dicts; a key that is absent is *)
(* read through dict.get with its default.  Timestamps are in seconds.     *)
(***************************************************************************)
SecondsPerDay == 86400

DefaultExpiresIn == 3600

DevTokenLifetime == 3600

\* datetime.now().timestamp() when the clock reads t ticks
Timestamp(t) ==
    t * (SecondsPerDay \div TicksPerDay)

\* d.get(key, default)
Get(d, key, default) ==
    IF key \in DOMAIN d THEN d[key] ELSE default

\* TokenExpired with the comparison turned around
TokenExpired_Inverted(token, t) ==
    Timestamp(t) < Get(token, "expires_at", 0)

\* datetime.now() > datetime.fromtimestamp(token.get("expires_at", 0))
TokenExpired(token, t) ==
    Timestamp(t) > Get(token, "expires_at", 0)

\* bool(token.get("refresh_token"))
HasRefreshToken(token) ==
    Get(token, "refresh_token", "") # ""

\* the placeholder returned in development mode
DevToken(t) ==
    [access_token |-> "dev_token", token_type |-> "bearer",
     expires_at |-> Timestamp(t) + DevTokenLifetime]

Users ==
    {"current_user", "other_user"}

Callers ==
    1..MaxCallers

\* a caller that has not called get_token
IdleCall ==
    [pc |-> "idle", user_id |-> "", at |-> 0, token |-> EmptyDict,
     status |-> 0, detail |-> "", result |-> EmptyDict]

\* tokens a store may hold: with or without refresh_token, with expires_at
\* absent, at the first clock reading, or beyond the last one
StoredTokens ==
    {[access_token |-> "stored"] @@ refresh @@ expiry :
        refresh \in {EmptyDict, [refresh_token |-> "r1"]},
        expiry \in {EmptyDict, [expires_at |-> 0],
                    [expires_at |-> Timestamp(MaxNow) + DefaultExpiresIn]}}

\* bodies the token endpoint may answer a refresh with: a token with or
\* without expires_in and refresh_token, or an error document
RefreshBodies ==
    {[access_token |-> a, token_type |-> "bearer"] @@ rest :
        a \in {"fresh_a", "fresh_b"},
        rest \in {EmptyDict, [refresh_token |-> "r2", expires_in |-> 1800]}}
    \cup {[error |-> "invalid_grant"]}

\* the store before any call: empty, or holding a token of current_user
TokenStores ==
    {EmptyDict} \cup {("current_user" :> t) : t \in StoredTokens}

(***************************************************************************)
(* The state machine.                                                      *)
(***************************************************************************)
InitOver(tables) ==
    /\ db \in tables
    /\ now = 0
    /\ lastCall = NoCall
    /\ tokens = EmptyDict
    /\ DEV_MODE = FALSE
    /\ calls = [c \in Callers |-> IdleCall]

Init ==
    InitOver({Table(rows) : rows \in SeqsUpTo(SectorRows, MaxPositions)})

InitPricing ==
    InitOver({Table(rows) : rows \in SeqsUpTo(PricingRows, 1)})

InitExpiry ==
    InitOver({Table(rows) : rows \in SeqsUpTo(ExpiryRows, MaxPositions)})

InitStrategy ==
    InitOver({Table(rows) : rows \in SeqsUpTo(StrategyRows, MaxPositions)})

InitDiversity ==
    InitOver(DiversityTables)

\* tables long enough for three rows to add their shares under one key
InitOrder ==
    InitOver({Table(rows) : rows \in SeqsUpTo(OrderRows, MaxPositions + 1)})

\* GetPositionRisk that marks the row it has read as closed
GetPositionRisk_ClosesRow(position_id) ==
    /\ lastCall' = PositionRiskResponse(db, position_id, now)
    /\ db' = [i \in DOMAIN db |->
                 IF db[i].id = position_id THEN [db[i] EXCEPT !.is_open = FALSE]
                 ELSE db[i]]
    /\ UNCHANGED <<now, tokenVars>>

\* GET /positions/{position_id}
GetPositionRisk(position_id) ==
    /\ lastCall' = PositionRiskResponse(db, position_id, now)
    /\ UNCHANGED <<db, now, tokenVars>>

\* GET /portfolio
GetPortfolioRisk ==
    /\ lastCall' = PortfolioRiskResponse(db, now)
    /\ UNCHANGED <<db, now, tokenVars>>

\* the clock advances; the response of the last request has been delivered
Tick ==
    /\ now < MaxNow
    /\ now' = now + 1
    /\ lastCall' = NoCall
    /\ UNCHANGED <<db, tokenVars>>

Next ==
    \/ \E position_id \in PositionIds : GetPositionRisk(position_id)
    \/ GetPortfolioRisk
    \/ Tick

Spec ==
    Init /\ [][Next]_vars

SpecPricing ==
    InitPricing /\ [][Next]_vars

SpecExpiry ==
    InitExpiry /\ [][Next]_vars

SpecStrategy ==
    InitStrategy /\ [][Next]_vars

SpecDiversity ==
    InitDiversity /\ [][Next]_vars

SpecOrder ==
    InitOrder /\ [][Next]_vars

(***************************************************************************)
(* get_token: one call per caller.  The call runs to its return, to its    *)
(* HTTPException, or to the await of the refresh request; the answer of    *)
(* the token endpoint resumes it, and it returns after the client is       *)
(* closed.                                                                 *)
(***************************************************************************)
InitToken ==
    /\ db = <<>>
    /\ now = 0
    /\ lastCall = NoCall
    /\ tokens \in TokenStores
    /\ DEV_MODE \in BOOLEAN
    /\ calls = [c \in Callers |-> IdleCall]

Finished(call, pc, status, detail, result) ==
    [call EXCEPT !.pc = pc, !.status = status, !.detail = detail, !.result = result]

\* get_token from its first line to its return, its raise, or the await of
\* client.post
GetToken(c, user_id) ==
    /\ calls[c].pc = "idle"
    /\ LET call == [calls[c] EXCEPT !.user_id = user_id, !.at = now]
       IN  calls' = [calls EXCEPT ![c] =
               IF DEV_MODE /\ user_id \notin DOMAIN tokens
               THEN Finished(call, "returned", 200, "", DevToken(now))
               ELSE IF user_id \notin DOMAIN tokens
               THEN Finished(call, "raised", 401, "Not authenticated", EmptyDict)
               ELSE LET token == tokens[user_id]
                    IN  IF TokenExpired(token, now)
                        THEN IF ~HasRefreshToken(token)
                             THEN Finished(call, "raised", 401,
                                      "Session expired. Please log in again.", EmptyDict)
                             ELSE [call EXCEPT !.pc = "awaiting", !.token = token]
                        ELSE Finished([call EXCEPT !.token = token],
                                      "returned", 200, "", token)]
    /\ UNCHANGED <<db, now, lastCall, tokens, DEV_MODE>>

\* the refresh request is answered: new_token is stored in place of the old
RefreshAnswered(c, body) ==
    /\ calls[c].pc = "awaiting"
    /\ LET new_token ==
               [expires_at |-> Timestamp(now) + Get(body, "expires_in", DefaultExpiresIn)]
               @@ body
       IN  /\ tokens' = (calls[c].user_id :> new_token) @@ tokens
           /\ calls' = [calls EXCEPT ![c] = [@ EXCEPT !.pc = "closing",
                                                      !.token = new_token]]
    /\ UNCHANGED <<db, now, lastCall, DEV_MODE>>

\* the refresh request fails: the exception of client.post leaves get_token
RefreshFailed(c) ==
    /\ calls[c].pc = "awaiting"
    /\ calls' = [calls EXCEPT ![c] =
                    Finished(@, "raised", 500, "httpx.RequestError", EmptyDict)]
    /\ UNCHANGED <<db, now, lastCall, tokens, DEV_MODE>>

\* the client is closed and get_token returns the token it stored
ReturnToken(c) ==
    /\ calls[c].pc = "closing"
    /\ calls' = [calls EXCEPT ![c] = Finished(@, "returned", 200, "", @.token)]
    /\ UNCHANGED <<db, now, lastCall, tokens, DEV_MODE>>

NextToken ==
    \/ \E c \in Callers, user_id \in Users : GetToken(c, user_id)
    \/ \E c \in Callers, body \in RefreshBodies : RefreshAnswered(c, body)
    \/ \E c \in Callers : RefreshFailed(c)
    \/ \E c \in Callers : ReturnToken(c)
    \/ Tick

SpecToken ==
    InitToken /\ [][NextToken]_vars

(***************************************************************************)
(* What the properties below read from the state.  These definitions       *)
(* restate the documented formulas over the table; they use none of the    *)
(* operators of the service above.                                         *)
(***************************************************************************)
RECURSIVE SumInts(_)
SumInts(f) ==
    IF DOMAIN f = {} THEN 0
    ELSE LET k == CHOOSE x \in DOMAIN f : TRUE
         IN  f[k] + SumInts([x \in DOMAIN f \ {k} |-> f[x]])

\* the rows of the table with is_open true
OpenIdx ==
    {i \in DOMAIN db : db[i].is_open}

DocMaxLoss(p) ==
    CASE p.strategy = "covered_call" -> p.entry_price * p.quantity - p.premium_received
      [] p.strategy = "cash_secured_put" ->
             p.strike_price * p.quantity * 100 - p.premium_received
      [] OTHER -> 0

DocNotional(p) ==
    p.entry_price * p.quantity

DocSector(p) ==
    IF p.sector = None THEN "Other" ELSE p.sector[1]

DocDays(p) ==
    (p.expiration_date - now) \div TicksPerDay

DocBucket(d) ==
    CASE d < 7 -> "< 7 days"
      [] 7 <= d /\ d < 14 -> "7-14 days"
      [] 14 <= d /\ d <= 30 -> "15-30 days"
      [] d > 30 -> "> 30 days"

\* aggregate max_loss and total notional of the open rows
OpenRisk ==
    SumInts([i \in OpenIdx |-> DocMaxLoss(db[i])])

OpenNotional ==
    SumInts([i \in OpenIdx |-> DocNotional(db[i])])

\* the same sums over the open rows of one sector, strategy or window
SectorNotional(k) ==
    SumInts([i \in {j \in OpenIdx : DocSector(db[j]) = k} |-> DocNotional(db[i])])

StrategyRisk(k) ==
    SumInts([i \in {j \in OpenIdx : db[j].strategy = k} |-> DocMaxLoss(db[i])])

BucketRisk(k) ==
    SumInts([i \in {j \in OpenIdx : DocBucket(DocDays(db[j])) = k} |-> DocMaxLoss(db[i])])

PortfolioServed ==
    lastCall.op = "get_portfolio_risk"

PortfolioReturned ==
    lastCall.op = "get_portfolio_risk" /\ lastCall.raised = ""

PositionServed(i) ==
    lastCall.op = "get_position_risk" /\ lastCall.id = db[i].id

(***************************************************************************)
(* C1.  For every covered_call position, get_position_risk reports          *)
(* max_profit = premium_received and                                       *)
(* max_loss = entry_price * quantity - premium_received.                   *)
(***************************************************************************)
C1_CoveredCallProfitAndLoss ==
    \A i \in DOMAIN db :
        (PositionServed(i) /\ db[i].strategy = "covered_call")
        => /\ lastCall.status = 200
           /\ lastCall.body.max_profit = FromInt(db[i].premium_received)
           /\ lastCall.body.max_loss =
                  FromInt(db[i].entry_price * db[i].quantity - db[i].premium_received)

C1_Witness ==
    \E i \in DOMAIN db :
        /\ PositionServed(i) /\ lastCall.status = 200
        /\ db[i].strategy = "covered_call"
        /\ db[i].quantity > 1 /\ db[i].entry_price > 0 /\ db[i].premium_received > 0
        /\ db[i].entry_price * db[i].quantity # db[i].premium_received

(***************************************************************************)
(* C2.  For every cash_secured_put position, get_position_risk reports      *)
(* max_profit = premium_received and                                       *)
(* max_loss = strike_price * quantity * 100 - premium_received.            *)
(***************************************************************************)
C2_CashSecuredPutProfitAndLoss ==
    \A i \in DOMAIN db :
        (PositionServed(i) /\ db[i].strategy = "cash_secured_put")
        => /\ lastCall.status = 200
           /\ lastCall.body.max_profit = FromInt(db[i].premium_received)
           /\ lastCall.body.max_loss =
                  FromInt(db[i].strike_price * db[i].quantity * 100
                          - db[i].premium_received)

C2_Witness ==
    \E i \in DOMAIN db :
        /\ PositionServed(i) /\ lastCall.status = 200
        /\ db[i].strategy = "cash_secured_put"
        /\ db[i].quantity > 1 /\ db[i].strike_price > 1 /\ db[i].premium_received > 0
        /\ db[i].strike_price # db[i].entry_price

(***************************************************************************)
(* C3.  get_position_risk never ends in a division fault, and the           *)
(* risk_reward_ratio it reports is +infinity when the reported max_loss is *)
(* 0 and abs(max_profit / max_loss) otherwise.                             *)
(***************************************************************************)
C3_RiskRewardRatio ==
    lastCall.op = "get_position_risk"
    => /\ lastCall.raised = ""
       /\ lastCall.status = 200
          => lastCall.body.risk_reward_ratio =
                 IF lastCall.body.max_loss = Zero
                 THEN Infinity
                 ELSE RAbs(RDiv(lastCall.body.max_profit, lastCall.body.max_loss))

\* a covered call whose premium exactly offsets its cost basis
C3_Witness ==
    \E i \in DOMAIN db :
        /\ PositionServed(i) /\ lastCall.status = 200
        /\ db[i].strategy = "covered_call"
        /\ db[i].premium_received > 0
        /\ db[i].entry_price * db[i].quantity = db[i].premium_received
        /\ lastCall.body.risk_reward_ratio = Infinity

(***************************************************************************)
(* C4.  With no open position, get_portfolio_risk returns without a fault:  *)
(* totalRisk 0, an empty sectorExposure, riskByStrategy values summing to  *)
(* 0 and diversification 0.                                                *)
(***************************************************************************)
C4_EmptyPortfolio ==
    (PortfolioServed /\ OpenIdx = {})
    => /\ lastCall.raised = ""
       /\ lastCall.status = 200
       /\ lastCall.body.totalRisk = Zero
       /\ DOMAIN lastCall.body.sectorExposure = {}
       /\ RSum(lastCall.body.riskByStrategy) = Zero
       /\ lastCall.body.diversification = Zero

\* the table holds closed rows only, with notional and a sector
C4_Witness ==
    /\ PortfolioServed /\ lastCall.status = 200
    /\ OpenIdx = {}
    /\ \E i \in DOMAIN db : DocNotional(db[i]) > 0 /\ db[i].sector # None

(***************************************************************************)
(* C5.  With open positions whose total notional is 0, the sector exposure  *)
(* does not divide by zero and is the empty mapping.                       *)
(***************************************************************************)
C5_ZeroNotionalEmptyMapping ==
    (PortfolioServed /\ OpenIdx # {} /\ OpenNotional = 0)
    => /\ lastCall.raised = ""
       /\ DOMAIN lastCall.body.sectorExposure = {}

(***************************************************************************)
(* C6.  With an open position of nonzero notional, the sectorExposure       *)
(* values sum to 100, each is 100 times the sector's share of the total    *)
(* notional, and rows without a sector count under "Other" only.           *)
(***************************************************************************)
C6_SectorExposure ==
    (PortfolioServed /\ \E i \in OpenIdx : DocNotional(db[i]) # 0)
    => /\ lastCall.raised = ""
       /\ LET exposure == lastCall.body.sectorExposure
          IN  /\ DOMAIN exposure = {DocSector(db[i]) : i \in OpenIdx}
              /\ RSum(exposure) = FromInt(100)
              /\ \A k \in DOMAIN exposure :
                     exposure[k] = Rat(100 * SectorNotional(k), OpenNotional)

\* a row without a sector next to a row of a named sector, of unequal notional
C6_Witness ==
    /\ PortfolioReturned
    /\ \E i, j \in OpenIdx :
           /\ db[i].sector = None /\ db[j].sector = Str("Tech")
           /\ DocNotional(db[i]) > 0
           /\ DocNotional(db[j]) > DocNotional(db[i])
    /\ DOMAIN lastCall.body.sectorExposure = {"Other", "Tech"}

(***************************************************************************)
(* C7.  Every open position's max_loss is added to exactly one expiration   *)
(* window, chosen by its days to expiration d: d < 7, 7 <= d < 14,         *)
(* 14 <= d <= 30, d > 30.  (The sums are reported as shares of the         *)
(* aggregate when the aggregate is positive, and as they are otherwise.)   *)
(***************************************************************************)
C7_ExpirationWindows ==
    PortfolioReturned
    => \A k \in BucketKeys :
           lastCall.body.riskByExpiration[k] =
               IF OpenRisk > 0
               THEN Rat(100 * BucketRisk(k), OpenRisk)
               ELSE FromInt(BucketRisk(k))

\* rows 7 and 14 days from expiration, both at risk
C7_Witness ==
    /\ PortfolioReturned
    /\ \E i, j \in OpenIdx :
           /\ DocDays(db[i]) = 7 /\ DocMaxLoss(db[i]) > 0
           /\ DocDays(db[j]) = 14 /\ DocMaxLoss(db[j]) > 0
    /\ lastCall.body.riskByExpiration["7-14 days"] = FromInt(50)
    /\ lastCall.body.riskByExpiration["15-30 days"] = FromInt(50)

(***************************************************************************)
(* C8.  riskByExpiration has exactly the four window keys; its values sum   *)
(* to 100 when the aggregate max_loss is positive and are all 0 when the   *)
(* aggregate max_loss is 0.                                                *)
(***************************************************************************)
C8_ExpirationShares ==
    PortfolioReturned
    => LET shares == lastCall.body.riskByExpiration
       IN  /\ DOMAIN shares = BucketKeys
           /\ OpenRisk > 0 => RSum(shares) = FromInt(100)
           /\ OpenRisk = 0 => \A k \in BucketKeys : shares[k] = Zero

(***************************************************************************)
(* C9.  riskByStrategy maps each strategy of an open position to its        *)
(* percentage of the aggregate max_loss: the values sum to 100 when the    *)
(* aggregate is nonzero, and all are 0 when it is 0; the calculation       *)
(* raises no division fault.                                               *)
(***************************************************************************)
C9_StrategyDistribution ==
    PortfolioServed
    => /\ lastCall.raisedIn # "_calculate_strategy_distribution"
       /\ lastCall.raised = ""
          => LET shares == lastCall.body.riskByStrategy
             IN  /\ DOMAIN shares = {db[i].strategy : i \in OpenIdx}
                 /\ OpenRisk # 0
                    => /\ RSum(shares) = FromInt(100)
                       /\ \A k \in DOMAIN shares :
                              shares[k] = Rat(100 * StrategyRisk(k), OpenRisk)
                 /\ OpenRisk = 0 => \A k \in DOMAIN shares : shares[k] = Zero

\* two strategies whose losses differ in sign, the aggregate being negative
C9_Witness ==
    /\ PortfolioReturned
    /\ OpenRisk < 0
    /\ \E i, j \in OpenIdx :
           /\ db[i].strategy = "covered_call" /\ DocMaxLoss(db[i]) < 0
           /\ db[j].strategy = "iron_condor"
    /\ RSum(lastCall.body.riskByStrategy) = FromInt(100)

(***************************************************************************)
(* C10.  As claimed: maxLoss = totalRisk * 0.8 and maxLoss <= totalRisk,   *)
(* for every collection of open positions.                                 *)
(***************************************************************************)
C10_MaxLossAtMostTotalRisk ==
    PortfolioReturned
    => /\ lastCall.body.maxLoss = Rat(8 * OpenRisk, 10)
       /\ RLeq(lastCall.body.maxLoss, lastCall.body.totalRisk)

(***************************************************************************)
(* C10, amended.  maxLoss = totalRisk * 0.8 for every collection of open   *)
(* positions; maxLoss <= totalRisk exactly when totalRisk >= 0.            *)
(***************************************************************************)
C10_MaxLossDiscount ==
    PortfolioReturned
    => /\ lastCall.body.totalRisk = FromInt(OpenRisk)
       /\ lastCall.body.maxLoss = Rat(8 * OpenRisk, 10)
       /\ RLeq(lastCall.body.maxLoss, lastCall.body.totalRisk) <=> OpenRisk >= 0

C10_Witness ==
    /\ PortfolioReturned
    /\ OpenRisk > 0
    /\ Cardinality(OpenIdx) > 1
    /\ lastCall.body.maxLoss # lastCall.body.totalRisk
    /\ RLeq(lastCall.body.maxLoss, lastCall.body.totalRisk)

(***************************************************************************)
(* C11.  diversification = min(n / 10, 1.0), n being the number of distinct *)
(* sectors of the open positions that have one: it lies in [0, 1], is 0.3  *)
(* for three sectors and 1.0 for ten or more, and rows without a sector do *)
(* not add to n.                                                           *)
(***************************************************************************)
OpenSectors ==
    {db[i].sector : i \in {j \in OpenIdx : db[j].sector # None}}

C11_DiversificationScore ==
    PortfolioReturned
    => LET n == Cardinality(OpenSectors)
           score == lastCall.body.diversification
       IN  /\ score = IF n >= 10 THEN FromInt(1) ELSE Rat(n, 10)
           /\ RLeq(Zero, score) /\ RLeq(score, FromInt(1))
           /\ n = 3 => score = Rat(3, 10)

\* more than ten sectors, next to a repeated sector and a row without one
C11_Witness ==
    /\ PortfolioReturned
    /\ Cardinality(OpenSectors) > 10
    /\ Cardinality(OpenIdx) > Cardinality(OpenSectors) + 1
    /\ \E i \in OpenIdx : db[i].sector = None
    /\ lastCall.body.diversification = FromInt(1)

(***************************************************************************)
(* C12.  risk_distribution has exactly the keys low, medium, high and       *)
(* extreme; each value is the percentage of the open positions whose risk  *)
(* level, as get_position_risk reports it, is that key; the values sum to  *)
(* 100 for a non-empty portfolio and are all 0 for an empty one, and the   *)
(* calculation raises no division fault.                                   *)
(***************************************************************************)
\* the risk_level the report of get_position_risk carries for row i
ReportedRiskLevel(i) ==
    PositionRiskReport(db[i], db[i].id, now).risk_level

C12_RiskDistribution ==
    PortfolioServed
    => /\ lastCall.raisedIn # "_calculate_risk_distribution"
       /\ lastCall.raised = ""
          => LET shares == lastCall.body.risk_distribution
                 total == Cardinality(OpenIdx)
             IN  /\ DOMAIN shares = {"low", "medium", "high", "extreme"}
                 /\ total > 0
                    => /\ RSum(shares) = FromInt(100)
                       /\ \A k \in DOMAIN shares :
                              shares[k] =
                                  Rat(100 * Cardinality({i \in OpenIdx :
                                                 ReportedRiskLevel(i) = k}), total)
                 /\ total = 0 => \A k \in DOMAIN shares : shares[k] = Zero

\* an open row next to a closed one
C12_Witness ==
    /\ PortfolioReturned
    /\ Cardinality(OpenIdx) = 1
    /\ Len(db) > 1
    /\ lastCall.body.risk_distribution["medium"] = FromInt(100)

(***************************************************************************)
(* C13.  GET /positions/{id} answers 404 exactly when no position has the   *)
(* requested id: a missing id gives the error result and 404, and the      *)
(* report of an existing position has no "error" key.                      *)
(***************************************************************************)
RequestedExists ==
    \E i \in DOMAIN db : db[i].id = lastCall.id

C13_NotFound ==
    lastCall.op = "get_position_risk"
    => /\ lastCall.status = 404 <=> ~RequestedExists
       /\ ~RequestedExists => lastCall.body = [error |-> "Position not found"]
       /\ RequestedExists
          => /\ lastCall.status = 200
             /\ "error" \notin DOMAIN lastCall.body
             /\ lastCall.body.position_id = lastCall.id

\* an id that no row of a non-empty table has
C13_Witness ==
    /\ lastCall.op = "get_position_risk"
    /\ Len(db) > 0
    /\ ~RequestedExists
    /\ lastCall.status = 404

(***************************************************************************)
(* C14.  totalRisk is the sum of max_loss over exactly the open positions,  *)
(* and closed positions contribute to no output of get_portfolio_risk: the *)
(* response is the one the table without its closed rows gives.            *)
(***************************************************************************)
OpenRowsOnly ==
    SelectSeq(db, LAMBDA p : p.is_open)

C14_OpenPositionsOnly ==
    PortfolioServed
    => /\ lastCall.raised = "" => lastCall.body.totalRisk = FromInt(OpenRisk)
       /\ lastCall = PortfolioRiskResponse(OpenRowsOnly, now)

\* a closed row and an open row, both with a loss to count
C14_Witness ==
    /\ PortfolioReturned
    /\ \E i, j \in DOMAIN db :
           /\ db[i].is_open /\ ~db[j].is_open
           /\ DocMaxLoss(db[i]) > 0
           /\ DocMaxLoss(db[j]) > 0 /\ DocMaxLoss(db[j]) # DocMaxLoss(db[i])
           /\ db[j].sector # db[i].sector
    /\ lastCall.body.totalRisk = FromInt(OpenRisk)

(***************************************************************************)
(* C15.  A position whose strategy is neither covered_call nor              *)
(* cash_secured_put has max_profit 0 and max_loss 0; when open it adds 0   *)
(* to totalRisk and has its own key in riskByStrategy.                     *)
(***************************************************************************)
Unrecognized(p) ==
    p.strategy \notin {"covered_call", "cash_secured_put"}

\* aggregate max_loss of the open rows of the two known strategies
RecognizedRisk ==
    SumInts([i \in {j \in OpenIdx : ~Unrecognized(db[j])} |-> DocMaxLoss(db[i])])

C15_UnrecognizedStrategy ==
    \A i \in DOMAIN db :
        Unrecognized(db[i])
        => /\ PositionServed(i)
              => /\ lastCall.status = 200
                 /\ lastCall.body.max_profit = Zero
                 /\ lastCall.body.max_loss = Zero
           /\ (PortfolioReturned /\ i \in OpenIdx)
              => /\ lastCall.body.totalRisk = FromInt(RecognizedRisk)
                 /\ db[i].strategy \in DOMAIN lastCall.body.riskByStrategy
                 /\ lastCall.body.riskByStrategy[db[i].strategy] = Zero

\* an open row of another strategy, with a premium, next to a covered call
C15_Witness ==
    /\ PortfolioReturned
    /\ \E i, j \in OpenIdx :
           /\ Unrecognized(db[i]) /\ db[i].premium_received > 0
           /\ db[j].strategy = "covered_call" /\ DocMaxLoss(db[j]) # 0
    /\ DOMAIN lastCall.body.riskByStrategy = {"covered_call", "iron_condor"}

(***************************************************************************)
(* C16.  No request changes a position record: in every step the table is   *)
(* left as it was, and the response of a request is the one its table and  *)
(* clock reading give, whatever requests were served before.               *)
(***************************************************************************)
C16_StepLeavesTable ==
    /\ db' = db
    /\ lastCall'.op = "get_portfolio_risk"
       => lastCall' = PortfolioRiskResponse(db, now)
    /\ lastCall'.op = "get_position_risk"
       => lastCall' = PositionRiskResponse(db, lastCall'.id, now)

C16_ReadOnly ==
    [][C16_StepLeavesTable]_vars

\* a report served after other requests and a clock tick, the table as it was
C16_Witness ==
    /\ lastCall.op = "get_position_risk"
    /\ lastCall.status = 200
    /\ now > 0
    /\ \E i \in DOMAIN db : PositionServed(i) /\ db[i].is_open

(***************************************************************************)
(* C17.  The response of get_portfolio_risk does not depend on the order    *)
(* in which the query returns the open positions: every permutation of    *)
(* the rows gives the same totalRisk, maxLoss, diversification,            *)
(* risk_distribution, sectorExposure, riskByStrategy and riskByExpiration, *)
(* as the real numbers of the body and as the floats the code returns.     *)
(***************************************************************************)
Reordered(pi) ==
    [i \in DOMAIN db |-> db[pi[i]]]

C17_OrderIndependent ==
    PortfolioServed
    => \A pi \in Permutations(DOMAIN db) :
           LET other == PortfolioRiskResponse(Reordered(pi), now)
           IN  /\ other.raised = lastCall.raised
               /\ other.body = lastCall.body
               /\ other.binary64 = lastCall.binary64

(***************************************************************************)
(* C18.  The values of riskByStrategy and the values of riskByExpiration    *)
(* have the same sum for every collection of open positions: 100 when the  *)
(* aggregate max_loss is nonzero (negative included), 0 when it is 0.      *)
(***************************************************************************)
C18_BreakdownsAgree ==
    PortfolioReturned
    => LET byStrategy == RSum(lastCall.body.riskByStrategy)
           byExpiration == RSum(lastCall.body.riskByExpiration)
       IN  /\ byStrategy = byExpiration
           /\ OpenRisk # 0 => byStrategy = FromInt(100) /\ byExpiration = FromInt(100)
           /\ OpenRisk = 0 => byStrategy = Zero /\ byExpiration = Zero


(***************************************************************************)
(* C19.  get_token.                                                        *)
(***************************************************************************)
\* what the documentation calls an expired token, at clock reading t
DocExpired(token, t) ==
    t * (86400 \div TicksPerDay) >
        (IF "expires_at" \in DOMAIN token THEN token["expires_at"] ELSE 0)

DocHasRefresh(token) ==
    "refresh_token" \in DOMAIN token /\ token["refresh_token"] # ""

DocPlaceholder(token) ==
    "access_token" \in DOMAIN token /\ token["access_token"] = "dev_token"

\* caller c's call of get_token neither returns nor stores in this step,
\* or does so in one of the documented cases
C19_StepOf(c) ==
    LET before == calls[c]
        after == calls'[c]
        u == after.user_id
        called == before.pc = "idle" /\ after.pc # "idle"
        returns == before.pc # "returned" /\ after.pc = "returned"
        fails401 == after.pc = "raised" /\ after.status = 401
    IN  /\ (called /\ ~DEV_MODE /\ u \notin DOMAIN tokens)
               => (fails401 /\ tokens' = tokens)
        /\ (called /\ u \in DOMAIN tokens /\ DocExpired(tokens[u], now)
                   /\ ~DocHasRefresh(tokens[u]))
               => (fails401 /\ tokens' = tokens)
        /\ returns =>
               \/ /\ called
                  /\ DEV_MODE /\ u \notin DOMAIN tokens
                  /\ DocPlaceholder(after.result)
               \/ /\ called
                  /\ u \in DOMAIN tokens /\ ~DocExpired(tokens[u], now)
                  /\ after.result = tokens[u]
               \/ /\ before.pc = "closing"
                  /\ after.result = before.token
                  /\ after.result["expires_at"] > after.at * (86400 \div TicksPerDay)
        /\ (before.pc # "closing" /\ after.pc = "closing")
               => /\ u \in DOMAIN tokens'
                  /\ tokens'[u] = after.token
                  /\ u \in DOMAIN tokens

C19_Step ==
    \A c \in Callers : C19_StepOf(c)

\* C19: get_token returns a token only as the development placeholder (DEV_MODE
\* on, no stored token), as the stored token that has not expired, or as a
\* refreshed token that it has put in the store in place of the stored one and
\* whose expires_at is later than the time of the call; with DEV_MODE off and
\* no stored token, or with an expired stored token without refresh_token, the
\* call fails with 401 and the store is left as it was.
C19_GetToken ==
    [][C19_Step]_vars

\* one caller has been refused with 401, another has returned the refreshed
\* token that is now in the store
C19_Witness ==
    \E c, d \in Callers :
        /\ calls[c].pc = "raised" /\ calls[c].status = 401
        /\ calls[d].pc = "returned"
        /\ "access_token" \in DOMAIN calls[d].result
        /\ calls[d].result["access_token"] \in {"fresh_a", "fresh_b"}
        /\ calls[d].user_id \in DOMAIN tokens
        /\ tokens[calls[d].user_id] = calls[d].result
====
